---- MODULE Spec2Model ----
(***************************************************************************)
(* Model of the dependency merger of node-cache-builder (src/merger.ts):   *)
(* mergeDependencies, processPackage, selectHigherVersion, cleanVersion    *)
(* and buildOutdatedReports.                                               *)
(*                                                                         *)
(* A version specifier is a string; it is modelled as the sequence of its  *)
(* characters so that semver.coerce can be computed on it and so that the  *)
(* literal comparison (!==) is sequence equality.                          *)
(***************************************************************************)
EXTENDS FiniteSets, Integers, Sequences, TLC

(* ------------------------------ bounds -------------------------------- *)

\* number of repository records in the input list
MaxRepos == 2

\* total number of (name, specifier) declarations over the whole input list
MaxDecls == 4

(* ------------------------------ inputs -------------------------------- *)

\* package names, in the order a manifest lists them unless reversed
PackageNames == <<"a", "b">>

Names == {PackageNames[n] : n \in 1..Len(PackageNames)}

\* the two dependency classes of a manifest
Classes == {"dependencies", "devDependencies"}

\* repository identifiers (RepoData.path), unique per record
RepoPaths == <<"/repo/A", "/repo/B", "/repo/C", "/repo/D">>

\* ""                  : empty specifier, unparseable and falsy
SpecEmpty == <<>>

\* "git+x"             : a URL-like specifier without any digit, unparseable
SpecGit == <<"g", "i", "t", "+", "x">>

\* "^1.0.0"
SpecCaret100 == <<"^", "1", ".", "0", ".", "0">>

\* "1.0.0"             : same concrete version as ^1.0.0, other literal
SpecExact100 == <<"1", ".", "0", ".", "0">>

\* "^1.1"              : a partial version, coerced to 1.1.0
SpecCaret11 == <<"^", "1", ".", "1">>

Specifiers == {SpecEmpty, SpecGit, SpecCaret100, SpecExact100, SpecCaret11}

(* ------------------------- semver (library) --------------------------- *)

\* the value of cleanVersion for a specifier semver.coerce rejects
NULL == <<>>

DigitVal == ("0" :> 0) @@ ("1" :> 1) @@ ("2" :> 2) @@ ("3" :> 3) @@ ("4" :> 4)
            @@ ("5" :> 5) @@ ("6" :> 6) @@ ("7" :> 7) @@ ("8" :> 8) @@ ("9" :> 9)

IsDigit(c) == c \in DOMAIN DigitVal

\* last index of the run of digits that starts at index i of s
RECURSIVE RunEnd(_, _)
RunEnd(s, i) ==
  IF i < Len(s) /\ IsDigit(s[i + 1]) THEN RunEnd(s, i + 1) ELSE i

\* decimal value of the digits s[i..j]
RECURSIVE NumVal(_, _, _)
NumVal(s, i, j) ==
  IF j < i THEN 0 ELSE 10 * NumVal(s, i, j - 1) + DigitVal[s[j]]

\* semver.coerce: the leftmost number of the string is the major version,
\* and up to two ".number" groups that follow it are minor and patch; the
\* missing ones are 0. No digit in the string: null.
SemverCoerce(s) ==
  LET starts == {i \in 1..Len(s) : IsDigit(s[i])}
  IN IF starts = {} THEN NULL
     ELSE LET i1 == CHOOSE i \in starts : \A k \in starts : i <= k
              j1 == RunEnd(s, i1)
              has2 == j1 + 2 <= Len(s) /\ s[j1 + 1] = "." /\ IsDigit(s[j1 + 2])
              j2 == IF has2 THEN RunEnd(s, j1 + 2) ELSE j1
              has3 == has2 /\ j2 + 2 <= Len(s) /\ s[j2 + 1] = "."
                      /\ IsDigit(s[j2 + 2])
              j3 == IF has3 THEN RunEnd(s, j2 + 2) ELSE j2
          IN <<NumVal(s, i1, j1),
               IF has2 THEN NumVal(s, j1 + 2, j2) ELSE 0,
               IF has3 THEN NumVal(s, j2 + 2, j3) ELSE 0>>

\* semver.gt on two coerced versions (major, minor, patch)
SemverGt(x, y) ==
  \/ x[1] > y[1]
  \/ x[1] = y[1] /\ x[2] > y[2]
  \/ x[1] = y[1] /\ x[2] = y[2] /\ x[3] > y[3]

\* semver.lt on two coerced versions
SemverLt(x, y) == SemverGt(y, x)

(* ----------------------------- merger.ts ------------------------------ *)

cleanVersion(version) == SemverCoerce(version)

\* a JavaScript string is truthy unless it is empty
Truthy(str) == str # <<>>

\* selectHigherVersion with the first fallback widened: an unparseable
\* current selection is kept even when the new specifier parses
selectHigherVersion_KeepUnparseable(v1, v2) ==
  LET clean1 == cleanVersion(v1)
      clean2 == cleanVersion(v2)
  IN IF clean1 = NULL THEN [selected |-> v1, isV1Higher |-> TRUE]
     ELSE IF clean2 = NULL THEN [selected |-> v1, isV1Higher |-> TRUE]
     ELSE IF SemverGt(clean1, clean2) THEN [selected |-> v1, isV1Higher |-> TRUE]
     ELSE IF SemverGt(clean2, clean1) THEN [selected |-> v2, isV1Higher |-> FALSE]
     ELSE [selected |-> v1, isV1Higher |-> TRUE]

\* selectHigherVersion preferring the second argument on equal versions
selectHigherVersion_LastOnTie(v1, v2) ==
  LET clean1 == cleanVersion(v1)
      clean2 == cleanVersion(v2)
  IN IF clean1 = NULL /\ clean2 = NULL THEN [selected |-> v1, isV1Higher |-> TRUE]
     ELSE IF clean1 = NULL THEN [selected |-> v2, isV1Higher |-> FALSE]
     ELSE IF clean2 = NULL THEN [selected |-> v1, isV1Higher |-> TRUE]
     ELSE IF SemverGt(clean1, clean2) THEN [selected |-> v1, isV1Higher |-> TRUE]
     ELSE [selected |-> v2, isV1Higher |-> FALSE]

\* selectHigherVersion without the branch that prefers a higher v2
selectHigherVersion_NoSecondBranch(v1, v2) ==
  LET clean1 == cleanVersion(v1)
      clean2 == cleanVersion(v2)
  IN IF clean1 = NULL /\ clean2 = NULL THEN [selected |-> v1, isV1Higher |-> TRUE]
     ELSE IF clean1 = NULL THEN [selected |-> v2, isV1Higher |-> FALSE]
     ELSE [selected |-> v1, isV1Higher |-> TRUE]

selectHigherVersion(v1, v2) ==
  LET clean1 == cleanVersion(v1)
      clean2 == cleanVersion(v2)
  IN IF clean1 = NULL /\ clean2 = NULL THEN [selected |-> v1, isV1Higher |-> TRUE]
     ELSE IF clean1 = NULL THEN [selected |-> v2, isV1Higher |-> FALSE]
     ELSE IF clean2 = NULL THEN [selected |-> v1, isV1Higher |-> TRUE]
     ELSE IF SemverGt(clean1, clean2) THEN [selected |-> v1, isV1Higher |-> TRUE]
     ELSE IF SemverGt(clean2, clean1) THEN [selected |-> v2, isV1Higher |-> FALSE]
     ELSE [selected |-> v1, isV1Higher |-> TRUE]

\* processPackage that stores a fresh entry when the new version is
\* preferred, losing the sources recorded before
processPackage_FreshEntry(versionMap, name, version, repoPath) ==
  IF name \notin DOMAIN versionMap
  THEN versionMap @@ (name :> [version |-> version, sources |-> (repoPath :> version)])
  ELSE LET existing == versionMap[name]
           res == selectHigherVersion(existing.version, version)
       IN [versionMap EXCEPT ![name] =
             IF ~res.isV1Higher
             THEN [version |-> res.selected, sources |-> (repoPath :> version)]
             ELSE [version |-> existing.version,
                   sources |-> (repoPath :> version) @@ existing.sources]]

\* a version map is a function from the names seen so far to
\* [version, sources]; sources maps a repository path to its specifier
processPackage(versionMap, name, version, repoPath) ==
  IF name \notin DOMAIN versionMap
  THEN versionMap @@ (name :> [version |-> version, sources |-> (repoPath :> version)])
  ELSE LET existing == versionMap[name]
           sources == (repoPath :> version) @@ existing.sources
           res == selectHigherVersion(existing.version, version)
       IN [versionMap EXCEPT ![name] =
             [version |-> IF ~res.isV1Higher THEN res.selected ELSE existing.version,
              sources |-> sources]]

\* the value of Map.get for a name the map does not hold
UNDEFINED == [undefined |-> TRUE]

\* Map.get: the entry of a name, or undefined
mapGet(versionMap, name) ==
  IF name \in DOMAIN versionMap THEN versionMap[name] ELSE UNDEFINED

\* isOutdated with semver.lte in place of semver.lt
isOutdated_Lte(version, selectedVersion) ==
  /\ selectedVersion # version
  /\ cleanVersion(version) # NULL
  /\ cleanVersion(selectedVersion) # NULL
  /\ ~SemverGt(cleanVersion(version), cleanVersion(selectedVersion))

\* isOutdated with an unparseable specifier read as 0.0.0 instead of skipped
isOutdated_NullAsZero(version, selectedVersion) ==
  LET orZero(c) == IF c = NULL THEN <<0, 0, 0>> ELSE c
  IN /\ selectedVersion # version
     /\ SemverLt(orZero(cleanVersion(version)), orZero(cleanVersion(selectedVersion)))

\* isOutdated as "not higher than the selection", without the literal guard
isOutdated_NotHigher(version, selectedVersion) ==
  /\ cleanVersion(version) # NULL
  /\ cleanVersion(selectedVersion) # NULL
  /\ ~SemverGt(cleanVersion(version), cleanVersion(selectedVersion))

\* lines 136-140 and 153-157: the declared specifier differs literally from
\* the selected one, both coerce, and the declared version is lower
isOutdated(version, selectedVersion) ==
  /\ selectedVersion # version
  /\ cleanVersion(version) # NULL
  /\ cleanVersion(selectedVersion) # NULL
  /\ SemverLt(cleanVersion(version), cleanVersion(selectedVersion))

OutdatedDep(name, version, selectedVersion) ==
  [name |-> name, currentVersion |-> version, selectedVersion |-> selectedVersion]

\* lines 134-148: the loop over Object.entries(repo.dependencies)
RECURSIVE checkDependencies(_, _)
checkDependencies(decls, depV) ==
  IF decls = <<>> THEN <<>>
  ELSE LET n == Len(decls)
           d == decls[n]
           before == checkDependencies(SubSeq(decls, 1, n - 1), depV)
           selected == mapGet(depV, d.name)
       IN IF selected # UNDEFINED /\ isOutdated(d.version, selected.version)
          THEN Append(before, OutdatedDep(d.name, d.version, selected.version))
          ELSE before

\* line 152: devDepVersions.get(name) || depVersions.get(name)
selectedForDev(devV, depV, name) ==
  IF mapGet(devV, name) # UNDEFINED THEN mapGet(devV, name) ELSE mapGet(depV, name)

\* lines 151-165: the loop over Object.entries(repo.devDependencies)
RECURSIVE checkDevDependencies(_, _, _)
checkDevDependencies(decls, depV, devV) ==
  IF decls = <<>> THEN <<>>
  ELSE LET n == Len(decls)
           d == decls[n]
           before == checkDevDependencies(SubSeq(decls, 1, n - 1), depV, devV)
           selected == selectedForDev(devV, depV, d.name)
       IN IF selected # UNDEFINED /\ isOutdated(d.version, selected.version)
          THEN Append(before, OutdatedDep(d.name, d.version, selected.version))
          ELSE before

\* outdatedDepsOf with the two loops swapped
outdatedDepsOf_DevFirst(repo, depV, devV) ==
  checkDevDependencies(repo.devDependencies, depV, devV)
    \o checkDependencies(repo.dependencies, depV)

\* lines 131-165: the outdatedDeps list of one repository
outdatedDepsOf(repo, depV, devV) ==
  checkDependencies(repo.dependencies, depV)
    \o checkDevDependencies(repo.devDependencies, depV, devV)

\* pushReport without the length test
pushReport_Always(reports, repo, outdatedDeps) ==
  Append(reports, [repoPath |-> repo.path, outdatedDeps |-> outdatedDeps])

\* lines 167-172: a report is pushed only for a non-empty list
pushReport(reports, repo, outdatedDeps) ==
  IF Len(outdatedDeps) > 0
  THEN Append(reports, [repoPath |-> repo.path, outdatedDeps |-> outdatedDeps])
  ELSE reports

\* lines 71-73
buildMergedDependencies(depV) ==
  [name \in DOMAIN depV |-> depV[name].version]

\* line 77: !mergedDependencies[name], a missing key reads as undefined
notInDependencies(merged, name) ==
  ~(name \in DOMAIN merged /\ Truthy(merged[name]))

\* lines 75-80
buildMergedDevDependencies(devV, merged) ==
  [name \in {n \in DOMAIN devV : notInDependencies(merged, n)} |-> devV[name].version]

(* ------------------------------ state --------------------------------- *)

VARIABLES
  repoDataList,           \* the argument of mergeDependencies
  depVersions,            \* Map name -> {version, sources}, normal class
  devDepVersions,         \* the same for the development class
  mergedDependencies,     \* MergeResult.mergedDependencies
  mergedDevDependencies,  \* MergeResult.mergedDevDependencies
  outdatedReports,        \* MergeResult.outdatedReports
  pc,                     \* "merge", "build", "reports", "return", "done"
  k,                      \* declarations processed by the loop of lines 55-65
  r                       \* repositories checked by the loop of lines 130-173

VARIABLES
  selectArgs,             \* the arguments <<v1, v2>> of a selectHigherVersion call
  selectResult            \* what the call returned, NoResult before it returns

VARIABLES
  repositories,           \* Config.repositories as persisted in the rc file
  fileSystem,             \* absolute path -> "ok", "nopkg" (no package.json), "missing"
  call,                   \* the running or last CLI command and its outcome
  missingPaths,           \* scanRepositories: the invalid repositories found
  scanned,                \* scanRepositories: paths validated so far
  started                 \* the stages of the build command started so far

mergeVars == <<repoDataList, depVersions, devDepVersions, mergedDependencies,
               mergedDevDependencies, outdatedReports, pc, k, r>>

selectVars == <<selectArgs, selectResult>>

cliVars == <<repositories, fileSystem, call, missingPaths, scanned, started>>

vars == <<repoDataList, depVersions, devDepVersions, mergedDependencies,
          mergedDevDependencies, outdatedReports, pc, k, r,
          selectArgs, selectResult,
          repositories, fileSystem, call, missingPaths, scanned, started>>

\* the call has not returned
NoResult == [returned |-> FALSE]

\* no selectHigherVersion call is observed
SelectIdle == selectArgs = <<>> /\ selectResult = NoResult

\* no CLI command runs
CliIdle ==
  /\ repositories = <<>>
  /\ fileSystem = <<>>
  /\ call = [command |-> "none"]
  /\ missingPaths = <<>>
  /\ scanned = 0
  /\ started = {}

\* mergeDependencies is not running
MergeIdle ==
  /\ repoDataList = <<>>
  /\ depVersions = <<>>
  /\ devDepVersions = <<>>
  /\ mergedDependencies = <<>>
  /\ mergedDevDependencies = <<>>
  /\ outdatedReports = <<>>
  /\ pc = "idle"
  /\ k = 0
  /\ r = 0

Repos == 1..MaxRepos

Slots == Repos \X Classes \X Names

Reverse(s) == [n \in 1..Len(s) |-> s[Len(s) + 1 - n]]

\* the (repository, class) pairs that declare every name: their order varies
Both(S) == {rc \in Repos \X Classes : \A n \in Names : <<rc[1], rc[2], n>> \in S}

\* Object.entries of one class of repository i: the declared names in
\* manifest order, each with its specifier
EntriesOf(S, f, Rev, i, c) ==
  LET order == IF <<i, c>> \in Rev THEN Reverse(PackageNames) ELSE PackageNames
      declared(n) == <<i, c, n>> \in S
      ns == SelectSeq(order, declared)
  IN [n \in 1..Len(ns) |-> [name |-> ns[n], version |-> f[<<i, c, ns[n]>>]]]

RepoData(S, f, Rev, i) ==
  [path |-> RepoPaths[i],
   dependencies |-> EntriesOf(S, f, Rev, i, "dependencies"),
   devDependencies |-> EntriesOf(S, f, Rev, i, "devDependencies")]

\* lines 55-65 flattened: every declaration in the order the loops visit it
RECURSIVE Declarations(_)
Declarations(list) ==
  IF list = <<>> THEN <<>>
  ELSE LET n == Len(list)
           repo == list[n]
           tag(c, ds) == [m \in 1..Len(ds) |->
                            [repo |-> n, class |-> c, path |-> repo.path,
                             name |-> ds[m].name, version |-> ds[m].version]]
       IN Declarations(SubSeq(list, 1, n - 1))
            \o tag("dependencies", repo.dependencies)
            \o tag("devDependencies", repo.devDependencies)

\* the position after k declarations: more to merge, or lines 67-80
AfterDeclaration(list, n) ==
  IF n < Len(Declarations(list)) THEN "merge" ELSE "build"

Init ==
  \E S \in {T \in SUBSET Slots : Cardinality(T) <= MaxDecls} :
    \E f \in [S -> Specifiers] :
      \E Rev \in SUBSET Both(S) :
        /\ repoDataList = [i \in Repos |-> RepoData(S, f, Rev, i)]
        /\ depVersions = <<>>
        /\ devDepVersions = <<>>
        /\ mergedDependencies = <<>>
        /\ mergedDevDependencies = <<>>
        /\ outdatedReports = <<>>
        /\ pc = IF S = {} THEN "build" ELSE "merge"
        /\ k = 0
        /\ r = 0
        /\ SelectIdle
        /\ CliIdle

(* ----------------------------- actions -------------------------------- *)

\* ProcessDependency with selectHigherVersion lacking its null guards:
\* semver.gt throws on a version that did not coerce
ProcessDependency_Throwing ==
  /\ pc = "merge"
  /\ LET d == Declarations(repoDataList)[k + 1]
         throws == /\ d.name \in DOMAIN depVersions
                   /\ \/ cleanVersion(d.version) = NULL
                      \/ cleanVersion(depVersions[d.name].version) = NULL
     IN /\ d.class = "dependencies"
        /\ depVersions' = IF throws THEN depVersions
                          ELSE processPackage(depVersions, d.name, d.version, d.path)
        /\ k' = IF throws THEN k ELSE k + 1
        /\ pc' = IF throws THEN "raised" ELSE AfterDeclaration(repoDataList, k + 1)
  /\ UNCHANGED <<repoDataList, devDepVersions, mergedDependencies,
                 mergedDevDependencies, outdatedReports, r>>
  /\ UNCHANGED <<selectVars, cliVars>>

\* lines 57-59: processPackage on the next declaration, a normal one
ProcessDependency ==
  /\ pc = "merge"
  /\ LET d == Declarations(repoDataList)[k + 1]
     IN /\ d.class = "dependencies"
        /\ depVersions' = processPackage(depVersions, d.name, d.version, d.path)
  /\ k' = k + 1
  /\ pc' = AfterDeclaration(repoDataList, k + 1)
  /\ UNCHANGED <<repoDataList, devDepVersions, mergedDependencies,
                 mergedDevDependencies, outdatedReports, r>>
  /\ UNCHANGED <<selectVars, cliVars>>

\* lines 62-64: processPackage on the next declaration, a development one
ProcessDevDependency ==
  /\ pc = "merge"
  /\ LET d == Declarations(repoDataList)[k + 1]
     IN /\ d.class = "devDependencies"
        /\ devDepVersions' = processPackage(devDepVersions, d.name, d.version, d.path)
  /\ k' = k + 1
  /\ pc' = AfterDeclaration(repoDataList, k + 1)
  /\ UNCHANGED <<repoDataList, depVersions, mergedDependencies,
                 mergedDevDependencies, outdatedReports, r>>
  /\ UNCHANGED <<selectVars, cliVars>>

\* lines 67-80: the two merged mappings
BuildMerged ==
  /\ pc = "build"
  /\ mergedDependencies' = buildMergedDependencies(depVersions)
  /\ mergedDevDependencies' =
       buildMergedDevDependencies(devDepVersions, mergedDependencies')
  /\ pc' = "reports"
  /\ UNCHANGED <<repoDataList, depVersions, devDepVersions, outdatedReports, k, r>>
  /\ UNCHANGED <<selectVars, cliVars>>

\* lines 130-173, one iteration: the report of the next repository
CheckRepository ==
  /\ pc = "reports"
  /\ r < Len(repoDataList)
  /\ LET repo == repoDataList[r + 1]
     IN outdatedReports' =
          pushReport(outdatedReports, repo,
                     outdatedDepsOf(repo, depVersions, devDepVersions))
  /\ r' = r + 1
  /\ UNCHANGED <<repoDataList, depVersions, devDepVersions, mergedDependencies,
                 mergedDevDependencies, pc, k>>
  /\ UNCHANGED <<selectVars, cliVars>>

\* lines 175 and 85-89: the merge result is returned
Return ==
  /\ pc = "reports"
  /\ r = Len(repoDataList)
  /\ pc' = "done"
  /\ UNCHANGED <<repoDataList, depVersions, devDepVersions, mergedDependencies,
                 mergedDevDependencies, outdatedReports, k, r>>
  /\ UNCHANGED <<selectVars, cliVars>>

Next ==
  \/ ProcessDependency
  \/ ProcessDevDependency
  \/ BuildMerged
  \/ CheckRepository
  \/ Return

Spec == Init /\ [][Next]_vars

(* ---------------- selectHigherVersion as a function ------------------- *)

\* length of the generated specifier strings
MaxSpecLen == 3

SpecAlphabet == {"^", "1", "2", "."}

\* "1.0.1"             : differs from 1.0.0 in the patch number only
SpecExact101 == <<"1", ".", "0", ".", "1">>

\* every string over the alphabet up to the length bound, with the
\* specifiers of the merge inputs
SelectInputs ==
  Specifiers \cup {SpecExact101}
    \cup UNION {[1..n -> SpecAlphabet] : n \in 0..MaxSpecLen}

SelectInit ==
  /\ selectArgs \in SelectInputs \X SelectInputs
  /\ selectResult = NoResult
  /\ MergeIdle
  /\ CliIdle

\* lines 20-44: one call of selectHigherVersion
CallSelectHigherVersion ==
  /\ selectArgs # <<>>
  /\ selectResult = NoResult
  /\ selectResult' = selectHigherVersion(selectArgs[1], selectArgs[2])
  /\ UNCHANGED <<selectArgs, mergeVars, cliVars>>

SelectNext == CallSelectHigherVersion

SpecSelect == SelectInit /\ [][SelectNext]_vars

(* ------------------------ paths (node:path) --------------------------- *)

\* A path is the sequence of its segments; an absolute path starts with the
\* root segment "/".
Cwd == <<"/", "w">>

DirA == <<"/", "w", "A">>

DirB == <<"/", "w", "B">>

DirC == <<"/", "w", "C">>

Dirs == {DirA, DirB, DirC}

\* "B", a relative path as a hand-edited rc file may hold it
RelB == <<"B">>

\* the paths a command line can name: relative, dotted and absolute forms
ArgPaths ==
  {<<"A">>, <<".", "A">>, DirA, RelB, DirB, <<"..", "w", "C">>, DirC}

\* "." is dropped and ".." removes the segment before it, the root excepted
RECURSIVE NormalizeSegments(_)
NormalizeSegments(p) ==
  IF p = <<>> THEN <<>>
  ELSE LET init == NormalizeSegments(SubSeq(p, 1, Len(p) - 1))
           last == p[Len(p)]
       IN IF last = "." THEN init
          ELSE IF last = ".."
               THEN IF Len(init) > 1 THEN SubSeq(init, 1, Len(init) - 1) ELSE init
               ELSE Append(init, last)

\* path.resolve: a relative path is taken from the working directory
PathResolve(p) ==
  NormalizeSegments(IF p # <<>> /\ p[1] = "/" THEN p ELSE Cwd \o p)

\* what is at an absolute path: "ok" (a directory with a package.json that
\* parses), "badjson" (its package.json does not parse), "nopkg" (a
\* directory without package.json) or "missing"
FileStates == {"ok", "badjson", "nopkg", "missing"}

StatusOf(fs, absolutePath) ==
  IF absolutePath \in DOMAIN fs THEN fs[absolutePath] ELSE "missing"

\* existsSync(absolutePath)
ExistsDir(fs, absolutePath) == StatusOf(fs, absolutePath) # "missing"

\* existsSync(resolve(absolutePath, 'package.json'))
ExistsPackageJson(fs, absolutePath) ==
  StatusOf(fs, absolutePath) \in {"ok", "badjson"}

Range(seq) == {seq[n] : n \in DOMAIN seq}

\* Array.indexOf, 0 for -1
IndexOf(seq, x) ==
  IF x \in Range(seq)
  THEN CHOOSE n \in DOMAIN seq : seq[n] = x /\ \A m \in DOMAIN seq : seq[m] = x => n <= m
  ELSE 0

\* Array.splice(index, 1)
Splice(seq, index) ==
  SubSeq(seq, 1, index - 1) \o SubSeq(seq, index + 1, Len(seq))

\* the rc files considered: lists without a duplicate path
ConfigLists ==
  LET stored == Dirs \cup {RelB}
  IN UNION {{l \in [1..n -> stored] : \A x, y \in 1..n : x # y => l[x] # l[y]} :
             n \in 0..Cardinality(stored)}

(* ----------------------------- config.ts ------------------------------ *)

\* addRepository without the includes test
addRepository_NoDuplicateTest(config, fs, repoPath) ==
  LET absolutePath == PathResolve(repoPath)
  IN IF ~ExistsDir(fs, absolutePath)
     THEN [config |-> config, saved |-> FALSE, error |-> "Repository path does not exist"]
     ELSE IF ~ExistsPackageJson(fs, absolutePath)
     THEN [config |-> config, saved |-> FALSE, error |-> "No package.json found"]
     ELSE [config |-> Append(config, absolutePath), saved |-> TRUE, error |-> "none"]

\* lines 59-82; config is the repositories list loadConfig returned
addRepository(config, fs, repoPath) ==
  LET absolutePath == PathResolve(repoPath)
  IN IF ~ExistsDir(fs, absolutePath)
     THEN [config |-> config, saved |-> FALSE, error |-> "Repository path does not exist"]
     ELSE IF ~ExistsPackageJson(fs, absolutePath)
     THEN [config |-> config, saved |-> FALSE, error |-> "No package.json found"]
     ELSE IF absolutePath \notin Range(config)
     THEN [config |-> Append(config, absolutePath), saved |-> TRUE, error |-> "none"]
     ELSE [config |-> config, saved |-> FALSE, error |-> "none"]

\* lines 87-105
removeRepository(config, repoPath) ==
  LET absolutePath == PathResolve(repoPath)
      index == IndexOf(config, absolutePath)
      originalIndex == IndexOf(config, repoPath)
  IN IF index = 0
     THEN IF originalIndex = 0
          THEN [config |-> config, saved |-> FALSE,
                error |-> "Repository not found in config"]
          ELSE [config |-> Splice(config, originalIndex), saved |-> TRUE,
                error |-> "none"]
     ELSE [config |-> Splice(config, index), saved |-> TRUE, error |-> "none"]

ConfigInit ==
  /\ repositories \in ConfigLists
  /\ fileSystem \in [Dirs -> FileStates]
  /\ call = [command |-> "none"]
  /\ missingPaths = <<>>
  /\ scanned = 0
  /\ started = {}
  /\ MergeIdle
  /\ SelectIdle

\* cli.ts lines 37-47: the add command; saveConfig writes the rc file
AddRepository ==
  \E repoPath \in ArgPaths :
    LET res == addRepository(repositories, fileSystem, repoPath)
    IN /\ repositories' = IF res.saved THEN res.config ELSE repositories
       /\ call' = [command |-> "add", repoPath |-> repoPath,
                   saved |-> res.saved, error |-> res.error]
       /\ UNCHANGED <<fileSystem, missingPaths, scanned, started, mergeVars, selectVars>>

\* cli.ts lines 55-64: the remove command
RemoveRepository ==
  \E repoPath \in ArgPaths :
    LET res == removeRepository(repositories, repoPath)
    IN /\ repositories' = IF res.saved THEN res.config ELSE repositories
       /\ call' = [command |-> "remove", repoPath |-> repoPath,
                   saved |-> res.saved, error |-> res.error]
       /\ UNCHANGED <<fileSystem, missingPaths, scanned, started, mergeVars, selectVars>>

ConfigNext == AddRepository \/ RemoveRepository

SpecConfig == ConfigInit /\ [][ConfigNext]_vars

(* ---------------------- scanner.ts and cli.ts ------------------------- *)

\* the values of --report-mode tried; "json" is not a report mode
ReportModes == {"console", "file", "json"}

InvalidRepository(absolutePath, missingPackageJson) ==
  [path |-> absolutePath, missingPackageJson |-> missingPackageJson]

\* validateRepository that stops recording after the first invalid path
validateRepository_FirstOnly(missing, fs, repoPath) ==
  LET absolutePath == PathResolve(repoPath)
  IN IF missing # <<>> THEN missing
     ELSE IF ~ExistsDir(fs, absolutePath)
     THEN Append(missing, InvalidRepository(absolutePath, FALSE))
     ELSE IF ~ExistsPackageJson(fs, absolutePath)
     THEN Append(missing, InvalidRepository(absolutePath, TRUE))
     ELSE missing

\* scanRepositories lines 17-28, one iteration of the validation loop
validateRepository(missing, fs, repoPath) ==
  LET absolutePath == PathResolve(repoPath)
  IN IF ~ExistsDir(fs, absolutePath)
     THEN Append(missing, InvalidRepository(absolutePath, FALSE))
     ELSE IF ~ExistsPackageJson(fs, absolutePath)
     THEN Append(missing, InvalidRepository(absolutePath, TRUE))
     ELSE missing

\* the build command at a stage, with the error it failed with
BuildCall(mode, stage, error, invalid) ==
  [command |-> "build", reportMode |-> mode, stage |-> stage,
   error |-> error, invalid |-> invalid]

BuildInit ==
  /\ repositories \in ConfigLists
  /\ fileSystem \in [Dirs -> FileStates]
  /\ \E mode \in ReportModes : call = BuildCall(mode, "start", "none", <<>>)
  /\ missingPaths = <<>>
  /\ scanned = 0
  /\ started = {}
  /\ MergeIdle
  /\ SelectIdle

\* cli.ts lines 105-124: report mode, loadConfig, the empty configuration
BuildStart ==
  /\ call.command = "build" /\ call.stage = "start"
  /\ IF call.reportMode \notin {"console", "file"}
     THEN /\ call' = BuildCall(call.reportMode, "failed", "Invalid report mode", <<>>)
          /\ started' = started
     ELSE IF Len(repositories) = 0
     THEN /\ call' = BuildCall(call.reportMode, "failed", "No repositories configured", <<>>)
          /\ started' = started
     ELSE /\ call' = BuildCall(call.reportMode, "scan", "none", <<>>)
          /\ started' = started \cup {"scan"}
  /\ UNCHANGED <<repositories, fileSystem, missingPaths, scanned, mergeVars, selectVars>>

\* scanRepositories lines 17-28: the next configured path is validated
ScanValidate ==
  /\ call.command = "build" /\ call.stage = "scan"
  /\ scanned < Len(repositories)
  /\ missingPaths' = validateRepository(missingPaths, fileSystem, repositories[scanned + 1])
  /\ scanned' = scanned + 1
  /\ UNCHANGED <<repositories, fileSystem, call, started, mergeVars, selectVars>>

\* scanRepositories lines 31-36 and cli.ts lines 148-152: the error with
\* all invalid repositories is thrown and the command exits
ScanThrow ==
  /\ call.command = "build" /\ call.stage = "scan"
  /\ scanned = Len(repositories)
  /\ Len(missingPaths) > 0
  /\ call' = BuildCall(call.reportMode, "failed", "Configuration error", missingPaths)
  /\ UNCHANGED <<repositories, fileSystem, missingPaths, scanned, started,
                 mergeVars, selectVars>>

\* scanRepositories lines 39-56: every package.json is read; JSON.parse
\* throws on one that does not parse
ScanRead ==
  /\ call.command = "build" /\ call.stage = "scan"
  /\ scanned = Len(repositories)
  /\ Len(missingPaths) = 0
  /\ IF \E n \in DOMAIN repositories :
          StatusOf(fileSystem, PathResolve(repositories[n])) = "badjson"
     THEN call' = BuildCall(call.reportMode, "failed", "SyntaxError", <<>>)
     ELSE call' = BuildCall(call.reportMode, "merge", "none", <<>>)
  /\ UNCHANGED <<repositories, fileSystem, missingPaths, scanned, started,
                 mergeVars, selectVars>>

\* cli.ts lines 130-133: mergeDependencies is called (it never throws)
BuildMerge ==
  /\ call.command = "build" /\ call.stage = "merge"
  /\ started' = started \cup {"merge"}
  /\ call' = BuildCall(call.reportMode, "report", "none", <<>>)
  /\ UNCHANGED <<repositories, fileSystem, missingPaths, scanned, mergeVars, selectVars>>

\* cli.ts line 136: generateReport writes the reports, or fails to
BuildReport ==
  /\ call.command = "build" /\ call.stage = "report"
  /\ started' = started \cup {"report"}
  /\ \E written \in BOOLEAN :
       call' = IF written THEN BuildCall(call.reportMode, "archive", "none", <<>>)
               ELSE BuildCall(call.reportMode, "failed", "write failed", <<>>)
  /\ UNCHANGED <<repositories, fileSystem, missingPaths, scanned, mergeVars, selectVars>>

\* cli.ts lines 139-146: buildArchive installs and packs, or throws
BuildArchive ==
  /\ call.command = "build" /\ call.stage = "archive"
  /\ started' = started \cup {"archive"}
  /\ \E built \in BOOLEAN :
       call' = IF built THEN BuildCall(call.reportMode, "done", "none", <<>>)
               ELSE BuildCall(call.reportMode, "failed", "archive failed", <<>>)
  /\ UNCHANGED <<repositories, fileSystem, missingPaths, scanned, mergeVars, selectVars>>

BuildNext ==
  \/ BuildStart
  \/ ScanValidate
  \/ ScanThrow
  \/ ScanRead
  \/ BuildMerge
  \/ BuildReport
  \/ BuildArchive

SpecBuild == BuildInit /\ [][BuildNext]_vars

(* ------------------- vocabulary of the properties --------------------- *)

Parseable(v) == SemverCoerce(v) # NULL

\* both specifiers coerce and the concrete version of v is below that of w
LowerThan(v, w) ==
  Parseable(v) /\ Parseable(w) /\ SemverLt(SemverCoerce(v), SemverCoerce(w))

\* neither specifier coerces to a version above the other's
NotAbove(v, w) ==
  Parseable(v) /\ Parseable(w) /\ ~SemverGt(SemverCoerce(v), SemverCoerce(w))

ClassDecls(repo, c) ==
  IF c = "dependencies" THEN repo.dependencies ELSE repo.devDependencies

\* repository i declares name with specifier v in class c
Declares(i, c, name, v) ==
  \E m \in DOMAIN ClassDecls(repoDataList[i], c) :
    ClassDecls(repoDataList[i], c)[m] = [name |-> name, version |-> v]

DeclaresName(i, c, name) == \E v \in Specifiers : Declares(i, c, name, v)

\* the specifiers any repository declares for name in class c
DeclaredSpecs(c, name) ==
  {v \in Specifiers : \E i \in DOMAIN repoDataList : Declares(i, c, name, v)}

\* the outdated entries reported for repository i
EntriesOfRepo(i) ==
  UNION {{outdatedReports[n].outdatedDeps[m] :
            m \in DOMAIN outdatedReports[n].outdatedDeps} :
          n \in {x \in DOMAIN outdatedReports :
                   outdatedReports[x].repoPath = repoDataList[i].path}}

AllEntries == UNION {EntriesOfRepo(i) : i \in DOMAIN repoDataList}

\* the specifiers the merge result lists for a name
Listed(name) ==
  {mergedDependencies[n] : n \in DOMAIN mergedDependencies \cap {name}}
    \cup {mergedDevDependencies[n] : n \in DOMAIN mergedDevDependencies \cap {name}}

\* no repository declares the empty specifier (the input of C1's violation)
NoEmptySpecifier ==
  \A c \in Classes, name \in Names : SpecEmpty \notin DeclaredSpecs(c, name)

(* ------------------------------ claims -------------------------------- *)

\* C1: the key sets of mergedDependencies and mergedDevDependencies are
\* disjoint for every input, empty and unparseable specifiers included.
C1_DisjointKeys ==
  pc = "done" =>
    DOMAIN mergedDependencies \cap DOMAIN mergedDevDependencies = {}

\* C2: for every name some repository declares in the normal class with a
\* parseable specifier, the specifier of mergedDependencies is parseable and
\* its concrete version is at least that of every parseable specifier
\* declared for the name in the normal class.
C2_HighestNormalSelected ==
  pc = "done" =>
    \A name \in Names :
      \A v \in DeclaredSpecs("dependencies", name) :
        Parseable(v) =>
          /\ name \in DOMAIN mergedDependencies
          /\ NotAbove(v, mergedDependencies[name])

\* C2 witness: the first repository declares a name with an unparseable
\* specifier, the second with a parseable one, and the merge has returned.
C2_Witness ==
  /\ pc = "done"
  /\ \E name \in Names, u, v \in Specifiers :
       /\ Declares(1, "dependencies", name, u) /\ ~Parseable(u)
       /\ Declares(2, "dependencies", name, v) /\ Parseable(v)
       /\ mergedDependencies[name] = v

\* C3: for every name, each specifier the merge result lists for it has a
\* concrete version at least that of every parseable specifier declared for
\* the name by any repository in either class. Stated on the inputs without
\* an empty specifier, where the two merged mappings share no key.
C3_HighestOverall ==
  pc = "done" /\ NoEmptySpecifier =>
    \A name \in Names : \A listed \in Listed(name) : \A c \in Classes :
      \A v \in DeclaredSpecs(c, name) :
        Parseable(v) => NotAbove(v, listed)

\* C4: when repository A declares a package only as a development
\* dependency with a lower version and repository B declares it only as a
\* normal dependency with a higher version, mergedDependencies holds the
\* higher specifier, mergedDevDependencies omits the package, and the report
\* of A has the entry (package, A's specifier, B's specifier).
C4_DevOnlyLowerIsFlagged ==
  pc = "done" =>
    \A name \in Names, lo, hi \in Specifiers :
      ( /\ Declares(1, "devDependencies", name, lo)
        /\ ~DeclaresName(1, "dependencies", name)
        /\ Declares(2, "dependencies", name, hi)
        /\ ~DeclaresName(2, "devDependencies", name)
        /\ \A i \in DOMAIN repoDataList \ {1, 2}, c \in Classes :
             ~DeclaresName(i, c, name)
        /\ LowerThan(lo, hi) )
      => /\ name \in DOMAIN mergedDependencies
         /\ mergedDependencies[name] = hi
         /\ name \notin DOMAIN mergedDevDependencies
         /\ OutdatedDep(name, lo, hi) \in EntriesOfRepo(1)

\* C5: the selectedVersion of every outdated entry is the specifier the
\* merge result lists for that name: the one of mergedDependencies, or the
\* one of mergedDevDependencies when the name is no normal dependency.
\* Stated on the inputs without an empty specifier, where the two merged
\* mappings share no key.
C5_SelectedIsListed ==
  pc = "done" /\ NoEmptySpecifier =>
    \A e \in AllEntries :
      IF e.name \in DOMAIN mergedDependencies
      THEN e.selectedVersion = mergedDependencies[e.name]
      ELSE /\ e.name \in DOMAIN mergedDevDependencies
           /\ e.selectedVersion = mergedDevDependencies[e.name]

\* C6: for every normal-class declaration (repository, name, specifier), the
\* entry (name, specifier, selected normal specifier) is in the repository's
\* report if and only if both specifiers are parseable, the declared version
\* is strictly lower than the selected one, and the two strings differ.
C6_NormalOutdatedIff ==
  pc = "done" =>
    \A i \in DOMAIN repoDataList, name \in Names, v \in Specifiers :
      Declares(i, "dependencies", name, v) =>
        LET selected == mergedDependencies[name]
        IN OutdatedDep(name, v, selected) \in EntriesOfRepo(i)
             <=> (LowerThan(v, selected) /\ v # selected)

\* C6 witness: one normal declaration is reported, and another one whose
\* specifier differs literally from the selection (same concrete version) is
\* not.
C6_Witness ==
  /\ pc = "done"
  /\ \E i \in DOMAIN repoDataList, name \in Names, v \in Specifiers :
       /\ Declares(i, "dependencies", name, v)
       /\ OutdatedDep(name, v, mergedDependencies[name]) \in EntriesOfRepo(i)
  /\ \E i \in DOMAIN repoDataList, name \in Names, v \in Specifiers :
       /\ Declares(i, "dependencies", name, v)
       /\ v # mergedDependencies[name]
       /\ Parseable(v)
       /\ \A e \in EntriesOfRepo(i) : e.name # name

\* C7: no outdated entry has an unparseable currentVersion or an unparseable
\* selectedVersion.
C7_UnparseableNeverFlagged ==
  \A e \in AllEntries :
    Parseable(e.currentVersion) /\ Parseable(e.selectedVersion)

\* C7 witness: the first repository declares a URL-like specifier for a name
\* the second declares with a parseable one in the same class, the merge has
\* returned, and some other declaration is reported.
C7_Witness ==
  /\ pc = "done"
  /\ AllEntries # {}
  /\ \E c \in Classes, name \in Names, v \in Specifiers :
       /\ Declares(1, c, name, SpecGit)
       /\ Declares(2, c, name, v)
       /\ Parseable(v)
       /\ \A e \in EntriesOfRepo(1) : e.name # name

\* C8: a package declared with one and the same specifier string by every
\* repository that declares it, in either class, has no outdated entry in
\* any report.
C8_IdenticalNeverOutdated ==
  \A name \in Names :
    Cardinality(DeclaredSpecs("dependencies", name)
                  \cup DeclaredSpecs("devDependencies", name)) = 1
      => \A e \in AllEntries : e.name # name

\* C8 witness: both repositories declare a name with the same parseable
\* specifier, one as a normal and one as a development dependency, and the
\* reports list another package.
C8_Witness ==
  /\ pc = "done"
  /\ AllEntries # {}
  /\ \E name \in Names, v \in Specifiers :
       /\ Parseable(v)
       /\ Declares(1, "dependencies", name, v)
       /\ Declares(2, "devDependencies", name, v)
       /\ DeclaredSpecs("dependencies", name)
            \cup DeclaredSpecs("devDependencies", name) = {v}

\* the specifier selected for a name in the class of a declaration
ClassSelected(c, name) ==
  IF c = "dependencies" THEN depVersions[name].version
  ELSE devDepVersions[name].version

\* repository i has a declaration below the selection of its class
HasOutdated(i) ==
  \E c \in Classes, name \in Names, v \in Specifiers :
    Declares(i, c, name, v) /\ LowerThan(v, ClassSelected(c, name))

\* C9: every report has a non-empty outdatedDeps list, no two reports are of
\* the same repository, and once the merge has returned a repository has a
\* report if and only if one of its declarations is outdated.
C9_ReportIffOutdated ==
  /\ \A n \in DOMAIN outdatedReports : Len(outdatedReports[n].outdatedDeps) > 0
  /\ \A m, n \in DOMAIN outdatedReports :
       m # n => outdatedReports[m].repoPath # outdatedReports[n].repoPath
  /\ pc = "done" =>
       \A i \in DOMAIN repoDataList :
         (\E n \in DOMAIN outdatedReports :
            outdatedReports[n].repoPath = repoDataList[i].path) <=> HasOutdated(i)

\* C9 witness: the merge has returned a report for the second repository and
\* none for the first, which has declarations.
C9_Witness ==
  /\ pc = "done"
  /\ Len(outdatedReports) = 1
  /\ outdatedReports[1].repoPath = repoDataList[2].path
  /\ repoDataList[1].dependencies # <<>>
  /\ repoDataList[1].devDependencies # <<>>

\* the input position of the repository of report n
RepoOfReport(n) ==
  CHOOSE i \in DOMAIN repoDataList :
    repoDataList[i].path = outdatedReports[n].repoPath

\* the entries es are declarations of decls, in the order of decls
InDeclarationOrder(es, decls) ==
  \E f \in [DOMAIN es -> DOMAIN decls] :
    /\ \A x, y \in DOMAIN es : x < y => f[x] < f[y]
    /\ \A x \in DOMAIN es :
         /\ es[x].name = decls[f[x]].name
         /\ es[x].currentVersion = decls[f[x]].version

\* C10: the reports are in the order of their repositories in the input
\* list, and the entries of a report are normal declarations of the
\* repository in declaration order followed by development declarations in
\* declaration order.
C10_OrderPreserved ==
  /\ \A m, n \in DOMAIN outdatedReports :
       m < n => RepoOfReport(m) < RepoOfReport(n)
  /\ \A n \in DOMAIN outdatedReports :
       LET es == outdatedReports[n].outdatedDeps
           repo == repoDataList[RepoOfReport(n)]
       IN \E split \in 0..Len(es) :
            /\ InDeclarationOrder(SubSeq(es, 1, split), repo.dependencies)
            /\ InDeclarationOrder(SubSeq(es, split + 1, Len(es)),
                                  repo.devDependencies)

\* C10 witness: a report whose first entry is a normal declaration and whose
\* second entry is a development declaration of the repository.
C10_Witness ==
  /\ pc = "done"
  /\ \E n \in DOMAIN outdatedReports :
       LET es == outdatedReports[n].outdatedDeps
           i == RepoOfReport(n)
       IN /\ Len(es) = 2
          /\ Declares(i, "dependencies", es[1].name, es[1].currentVersion)
          /\ Declares(i, "devDependencies", es[2].name, es[2].currentVersion)
          /\ ~DeclaresName(i, "dependencies", es[2].name)

\* C11: a call of selectHigherVersion on two parseable specifiers whose
\* concrete versions differ returns the one with the higher version, in
\* whichever position it was passed; isV1Higher tells the position.
C11_HigherSelectedEitherOrder ==
  selectResult # NoResult =>
    LET a == selectArgs[1]
        b == selectArgs[2]
    IN Parseable(a) /\ Parseable(b) =>
         /\ SemverGt(SemverCoerce(a), SemverCoerce(b)) =>
              selectResult = [selected |-> a, isV1Higher |-> TRUE]
         /\ SemverGt(SemverCoerce(b), SemverCoerce(a)) =>
              selectResult = [selected |-> b, isV1Higher |-> FALSE]

\* C11 witness: a call whose second argument is higher by the patch number
\* alone has returned.
C11_Witness ==
  /\ selectResult # NoResult
  /\ selectArgs = <<SpecExact100, SpecExact101>>
  /\ selectResult.selected = SpecExact101

\* the version map of a class
VersionMap(c) == IF c = "dependencies" THEN depVersions ELSE devDepVersions

\* the positions, among the first n declarations of D, of the declarations
\* of name in class c
ProcessedAt(D, n, c, name) ==
  {j \in 1..n : D[j].class = c /\ D[j].name = name}

\* w is preferred to v: it parses and v does not, or its version is higher
Beats(w, v) ==
  \/ ~Parseable(v) /\ Parseable(w)
  \/ LowerThan(v, w)

\* the earliest processed declaration of name in class c that no other
\* processed declaration of it beats
FirstSeenBest(D, n, c, name) ==
  LET at == ProcessedAt(D, n, c, name)
      best == {j \in at : \A i \in at : ~Beats(D[i].version, D[j].version)}
  IN D[CHOOSE j \in best : \A i \in best : j <= i].version

\* C12: at every point of the merge the specifier selected for a name in a
\* class is the earliest processed declaration among those no other
\* declaration beats: the first of those sharing the highest concrete
\* version, or the first declaration when none is parseable.
C12_FirstSeenWinsOnTies ==
  LET D == Declarations(repoDataList)
  IN \A c \in Classes : \A name \in DOMAIN VersionMap(c) :
       VersionMap(c)[name].version = FirstSeenBest(D, k, c, name)

\* C12 witness: the merge has returned; the two repositories declared a with
\* different specifiers of one concrete version and b with two different
\* unparseable specifiers, and the first repository's specifiers are selected.
C12_Witness ==
  /\ pc = "done"
  /\ Declares(1, "dependencies", "a", SpecCaret100)
  /\ Declares(2, "dependencies", "a", SpecExact100)
  /\ Declares(1, "dependencies", "b", SpecGit)
  /\ Declares(2, "dependencies", "b", SpecEmpty)
  /\ mergedDependencies = [a |-> SpecCaret100, b |-> SpecGit]

\* C14: mergeDependencies never changes the repository records it was
\* given, and from every input it runs on until it returns its result: it
\* is always at a declaration to process, at the construction of the merged
\* mappings, in the report loop or returned, never raised, unparseable
\* specifiers included.
C14_TotalAndInputsUnchanged ==
  /\ [][repoDataList' = repoDataList]_vars
  /\ [](\/ pc = "merge" /\ k < Len(Declarations(repoDataList))
        \/ pc = "build"
        \/ pc = "reports" /\ r <= Len(repoDataList)
        \/ pc = "done")

\* C14 witness: the merge has returned for an input in which a name is
\* declared with two different unparseable specifiers.
C14_Witness ==
  /\ pc = "done"
  /\ \E name \in Names :
       /\ Declares(1, "dependencies", name, SpecEmpty)
       /\ Declares(2, "dependencies", name, SpecGit)

\* the version map of a class after the step
VersionMapNext(c) == IF c = "dependencies" THEN depVersions' ELSE devDepVersions'

\* C15: in every step, each selection entry stays, its sources stay, and a
\* parseable selection is followed by a parseable one of no lower version;
\* after the step the sources of an entry are the repositories that have
\* declared the name in the class so far, each with its specifier, and the
\* selected specifier is literally one of those specifiers.
C15_SelectionEntriesMonotonic ==
  [][\A c \in Classes :
       /\ \A name \in DOMAIN VersionMap(c) :
            /\ name \in DOMAIN VersionMapNext(c)
            /\ \A p \in DOMAIN VersionMap(c)[name].sources :
                 /\ p \in DOMAIN VersionMapNext(c)[name].sources
                 /\ VersionMapNext(c)[name].sources[p] = VersionMap(c)[name].sources[p]
            /\ Parseable(VersionMap(c)[name].version) =>
                 NotAbove(VersionMap(c)[name].version, VersionMapNext(c)[name].version)
       /\ \A name \in DOMAIN VersionMapNext(c) :
            LET D == Declarations(repoDataList)
                at == ProcessedAt(D, k', c, name)
                entry == VersionMapNext(c)[name]
            IN /\ DOMAIN entry.sources = {D[j].path : j \in at}
               /\ \A j \in at : entry.sources[D[j].path] = D[j].version
               /\ Cardinality(DOMAIN entry.sources) = Cardinality(at)
               /\ entry.version \in {D[j].version : j \in at}
    ]_vars

\* C15 witness: an entry with the two repositories as sources whose
\* selection was replaced by the second repository's higher specifier.
C15_Witness ==
  /\ pc = "merge"
  /\ \E name \in DOMAIN devDepVersions :
       /\ DOMAIN devDepVersions[name].sources = {RepoPaths[1], RepoPaths[2]}
       /\ devDepVersions[name].sources[RepoPaths[1]] = SpecExact100
       /\ devDepVersions[name].version = SpecCaret11
       /\ devDepVersions[name].sources[RepoPaths[2]] = SpecCaret11

\* the names some repository declares in class c
DeclaredNames(c) == {name \in Names : DeclaredSpecs(c, name) # {}}

\* C16: the keys of mergedDependencies are the names declared in the normal
\* class, and the keys of mergedDevDependencies are the names declared in
\* the development class that are not declared in the normal class.
C16_KeyCoverage ==
  pc = "done" =>
    /\ DOMAIN mergedDependencies = DeclaredNames("dependencies")
    /\ DOMAIN mergedDevDependencies =
         DeclaredNames("devDependencies") \ DeclaredNames("dependencies")

NoDuplicates(seq) == \A x, y \in DOMAIN seq : x # y => seq[x] # seq[y]

InvalidAt ==
  {n \in DOMAIN repositories :
     StatusOf(fileSystem, PathResolve(repositories[n])) \in {"missing", "nopkg"}}

\* C13: when a configured repository is missing or lacks a package.json,
\* the build command never starts merging, reporting or archiving and never
\* completes, and once scanning has failed the error names each invalid
\* repository, with the note of a missing package.json where that is the
\* defect.
C13_ScanErrorNamesAllAndAborts ==
  call.command = "build" /\ InvalidAt # {} =>
    /\ started \cap {"merge", "report", "archive"} = {}
    /\ call.stage \in {"start", "scan", "failed"}
    /\ call.stage = "failed" /\ "scan" \in started =>
         /\ call.error = "Configuration error"
         /\ Len(call.invalid) = Cardinality(InvalidAt)
         /\ Range(call.invalid) =
              {InvalidRepository(
                 PathResolve(repositories[n]),
                 StatusOf(fileSystem, PathResolve(repositories[n])) = "nopkg") :
               n \in InvalidAt}

\* C13 witness: the build failed in the scan with a valid first repository,
\* a second without package.json and a third that is missing.
C13_Witness ==
  /\ call.command = "build"
  /\ call.stage = "failed"
  /\ repositories = <<DirA, DirB, DirC>>
  /\ fileSystem = (DirA :> "ok") @@ (DirB :> "nopkg") @@ (DirC :> "missing")
  /\ call.invalid = <<InvalidRepository(DirB, TRUE), InvalidRepository(DirC, FALSE)>>

====
